---- MODULE Spec2Model ----
(***************************************************************************)
(* A model of the zweather component: ZWeatherData (time-series aligner,   *)
(* record extractors, forecast builders, the two-request refresh cycle)    *)
(* and the ZWeather entity that reads the published fields.                *)
(*                                                                         *)
(* Python values are encoded as follows.                                   *)
(*   None            [tag |-> "None"]                                      *)
(*   a str           a sequence of one-character strings                   *)
(*   a dict          a function (record) from key to value; {} is the      *)
(*                   function of empty domain                              *)
(*   a list          a sequence                                            *)
(*   Optional[int]   None or [tag |-> "int", val |-> i]                    *)
(*   a call          [tag |-> "ok", val |-> v] when it returns v,          *)
(*                   [tag |-> "raise", exc |-> e] when it raises e         *)
(* Precipitation amounts are integers (tenths of a millimetre).            *)
(***************************************************************************)
EXTENDS Integers, Sequences, FiniteSets, TLC

VARIABLES
    current_weather_data,   \* ZWeatherData.current_weather_data
    hourly_forecast,        \* ZWeatherData.hourly_forecast
    daily_forecast,         \* ZWeatherData.daily_forecast
    clock,                  \* the system clock read by datetime.now(pytz.utc)
    pc,                     \* where fetch_data stands: idle, await_hourly, await_daily
    cycles,                 \* refresh cycles started so far
    ticks,                  \* clock advances so far
    coordinator_data,       \* DataUpdateCoordinator.data: None until a refresh returned
    returned,               \* how the last fetch_data ended: none, self, raised
    hourly_call,            \* the last hourly half: its payload, reference time, outcome
    daily_call,             \* the last daily half: its payload, reference time, outcome
    cur_cycle,              \* the cycle whose hourly payload current_weather_data is from
    hf_cycle,               \* the cycle whose hourly payload hourly_forecast is from
    prev,                   \* the published fields when the running cycle started
    read,                   \* the last property read of a ZWeather entity
    call                    \* the last direct call of a ZWeatherData method

vars == <<current_weather_data, hourly_forecast, daily_forecast, clock, pc, cycles,
          ticks, coordinator_data, returned, hourly_call, daily_call, cur_cycle,
          hf_cycle, prev, read, call>>

---------------------------------------------------------------------------
(* Python values *)

None == [tag |-> "None"]

EmptyDict == [k \in {} |-> None]

Ok(v) == [tag |-> "ok", val |-> v]

Raise(e) == [tag |-> "raise", exc |-> e]

Int_(i) == [tag |-> "int", val |-> i]

Some(v) == [tag |-> "some", val |-> v]

\* what a try block yields when the status is not 200 and nothing is refreshed
Skipped == [tag |-> "skipped"]

IsOk(r) == r.tag = "ok"

IsRaise(r) == r.tag = "raise"

\* F(e) with e evaluated once: a local variable holding the value of e
Bind(e, F(_)) == CHOOSE r \in {F(v) : v \in {e}} : TRUE

---------------------------------------------------------------------------
(* Strings: sequences of characters *)

Digits == <<"0", "1", "2", "3", "4", "5", "6", "7", "8", "9">>

\* two-digit, zero-padded decimal ("%02d")
D2(n) == <<Digits[(n \div 10) + 1], Digits[(n % 10) + 1]>>

\* four-digit, zero-padded decimal ("%04d")
D4(n) == D2(n \div 100) \o D2(n % 100)

IsDigit(c) == \E i \in 1..10 : Digits[i] = c

DigitVal(c) == (CHOOSE i \in 1..10 : Digits[i] = c) - 1

AllDigits(s) == \A i \in 1..Len(s) : IsDigit(s[i])

RECURSIVE NumVal(_)
NumVal(s) == IF s = <<>> THEN 0
             ELSE 10 * NumVal(SubSeq(s, 1, Len(s) - 1)) + DigitVal(s[Len(s)])

\* s[0:n]: the first n characters, or all of s when it is shorter
Slice(s, n) == SubSeq(s, 1, IF n < Len(s) THEN n ELSE Len(s))

\* Python's "sub in s" on strings
Contains(s, sub) ==
    \E off \in 0..(Len(s) - Len(sub)) : SubSeq(s, off + 1, off + Len(sub)) = sub

---------------------------------------------------------------------------
(* datetime: [year, month, day, hour, minute, second, tz]; tz is the UTC    *)
(* offset as written ("+00:00") or the empty string for a naive datetime.  *)

Ch_dash == "-"

Ch_colon == ":"

Ch_T == "T"

UtcOffset == <<"+", "0", "0", ":", "0", "0">>

IsLeap(y) == (y % 4 = 0) /\ ((y % 100 # 0) \/ (y % 400 = 0))

DaysIn(y, m) ==
    IF m = 2 THEN (IF IsLeap(y) THEN 29 ELSE 28)
    ELSE IF m \in {4, 6, 9, 11} THEN 30 ELSE 31

\* datetime + timedelta(days=1)
AddDay(dt) ==
    IF dt.day < DaysIn(dt.year, dt.month) THEN [dt EXCEPT !.day = dt.day + 1]
    ELSE IF dt.month < 12 THEN [dt EXCEPT !.month = dt.month + 1, !.day = 1]
    ELSE [dt EXCEPT !.year = dt.year + 1, !.month = 1, !.day = 1]

\* datetime + timedelta(hours=1)
AddHour(dt) ==
    IF dt.hour < 23 THEN [dt EXCEPT !.hour = dt.hour + 1]
    ELSE AddDay([dt EXCEPT !.hour = 0])

\* datetime.isoformat(), microsecond = 0
isoformat(dt) ==
    D4(dt.year) \o <<Ch_dash>> \o D2(dt.month) \o <<Ch_dash>> \o D2(dt.day)
    \o <<Ch_T>> \o D2(dt.hour) \o <<Ch_colon>> \o D2(dt.minute)
    \o <<Ch_colon>> \o D2(dt.second) \o dt.tz

\* the date part "YYYY-MM-DD" of an ISO string
ValidDate(s) ==
    /\ Len(s) = 10
    /\ AllDigits(SubSeq(s, 1, 4)) /\ s[5] = Ch_dash
    /\ AllDigits(SubSeq(s, 6, 7)) /\ s[8] = Ch_dash
    /\ AllDigits(SubSeq(s, 9, 10))
    /\ NumVal(SubSeq(s, 1, 4)) >= 1
    /\ NumVal(SubSeq(s, 6, 7)) \in 1..12
    /\ NumVal(SubSeq(s, 9, 10)) \in
           1..DaysIn(NumVal(SubSeq(s, 1, 4)), NumVal(SubSeq(s, 6, 7)))

\* a UTC offset "+HH:MM" or "-HH:MM"
ValidOffset(s) ==
    /\ Len(s) = 6
    /\ s[1] \in {"+", "-"}
    /\ AllDigits(SubSeq(s, 2, 3)) /\ s[4] = Ch_colon /\ AllDigits(SubSeq(s, 5, 6))
    /\ NumVal(SubSeq(s, 2, 3)) \in 0..23
    /\ NumVal(SubSeq(s, 5, 6)) \in 0..59

\* the clock part "HH", "HH:MM" or "HH:MM:SS" of an ISO string
ValidClock(s) ==
    /\ Len(s) \in {2, 5, 8}
    /\ AllDigits(SubSeq(s, 1, 2)) /\ NumVal(SubSeq(s, 1, 2)) \in 0..23
    /\ Len(s) >= 5 =>
          /\ s[3] = Ch_colon
          /\ AllDigits(SubSeq(s, 4, 5)) /\ NumVal(SubSeq(s, 4, 5)) \in 0..59
    /\ Len(s) = 8 =>
          /\ s[6] = Ch_colon
          /\ AllDigits(SubSeq(s, 7, 8)) /\ NumVal(SubSeq(s, 7, 8)) \in 0..59

\* the offset suffix of a time part, or the empty string
OffsetOf(t) ==
    IF Len(t) >= 6 /\ t[Len(t) - 5] \in {"+", "-"} THEN SubSeq(t, Len(t) - 5, Len(t))
    ELSE <<>>

ClockOf(t) == SubSeq(t, 1, Len(t) - Len(OffsetOf(t)))

\* datetime.fromisoformat(s), for the forms without fractional seconds:
\* a date, optionally one separator character and a clock, optionally an offset
fromisoformat(s) ==
    IF Len(s) < 10 \/ ~ValidDate(SubSeq(s, 1, 10)) THEN Raise("ValueError")
    ELSE LET date == [year |-> NumVal(SubSeq(s, 1, 4)),
                      month |-> NumVal(SubSeq(s, 6, 7)),
                      day |-> NumVal(SubSeq(s, 9, 10))]
         IN  IF Len(s) = 10
             THEN Ok([year |-> date.year, month |-> date.month, day |-> date.day,
                      hour |-> 0, minute |-> 0, second |-> 0, tz |-> <<>>])
             ELSE LET t == SubSeq(s, 12, Len(s))
                      off == OffsetOf(t)
                      c == ClockOf(t)
                  IN  IF ~ValidClock(c) \/ (off # <<>> /\ ~ValidOffset(off))
                      THEN Raise("ValueError")
                      ELSE Ok([year |-> date.year, month |-> date.month,
                               day |-> date.day,
                               hour |-> NumVal(SubSeq(c, 1, 2)),
                               minute |-> IF Len(c) >= 5 THEN NumVal(SubSeq(c, 4, 5)) ELSE 0,
                               second |-> IF Len(c) = 8 THEN NumVal(SubSeq(c, 7, 8)) ELSE 0,
                               tz |-> off])

\* pytz.utc.localize(dt): attaches UTC to a naive datetime, refuses an aware one
localize(dt) ==
    IF dt.tz # <<>> THEN Raise("ValueError") ELSE Ok([dt EXCEPT !.tz = UtcOffset])

\* ZWeatherData._add_timezone_information_to_datetime, timezone = pytz.utc
add_timezone_information_to_datetime(datetime_iso_str) ==
    LET iso_date == fromisoformat(datetime_iso_str)
    IN  IF IsRaise(iso_date) THEN iso_date
        ELSE LET loc == localize(iso_date.val)
             IN  IF IsRaise(loc) THEN loc ELSE Ok(isoformat(loc.val))

\* ZWeatherData._get_current_datetime_iso: datetime.now(pytz.utc).isoformat()
get_current_datetime_iso(now) == isoformat([now EXCEPT !.tz = UtcOffset])

---------------------------------------------------------------------------
(* ZWeatherData *)

\* the keys of ZWeatherData.wmo_code_to_condition_map
WmoCodes ==
    {0, 1, 2, 3, 45, 48, 51, 53, 55, 56, 57, 61, 63, 65, 66, 67, 71, 73, 75, 77,
     80, 81, 82, 85, 86, 95, 96, 99}

wmo_code_to_condition_map ==
    [c \in WmoCodes |->
        CASE c \in {0, 1} -> "sunny"
          [] c = 2 -> "partlycloudy"
          [] c = 3 -> "cloudy"
          [] c \in {45, 48} -> "fog"
          [] c \in {51, 53, 55, 61, 63, 80, 81, 82} -> "rainy"
          [] c \in {56, 57, 66, 67} -> "snowy-rainy"
          [] c = 65 -> "pouring"
          [] c \in {71, 73, 75, 77, 85, 86} -> "snow"
          [] c \in {95, 96, 99} -> "lightning-rainy"]

\* a lookup that falls back to a label of its own for a code it does not hold
condition_for_code_default(code) ==
    IF code \in DOMAIN wmo_code_to_condition_map
    THEN Ok(wmo_code_to_condition_map[code])
    ELSE Ok("exceptional")

\* ZWeatherData.wmo_code_to_condition_map[code]
condition_for_code(code) ==
    IF code \in DOMAIN wmo_code_to_condition_map
    THEN Ok(wmo_code_to_condition_map[code])
    ELSE Raise("KeyError")

slice_index_hourly == 13

slice_index_daily == 10

\* a scan that tests "time_str.startswith(current_day_hour)"
RECURSIVE first_match_startswith(_, _, _)
first_match_startswith(time_list, current_day_hour, i) ==
    IF i >= Len(time_list) THEN None
    ELSE IF Slice(time_list[i + 1], Len(current_day_hour)) = current_day_hour THEN Int_(i)
    ELSE first_match_startswith(time_list, current_day_hour, i + 1)

\* the for loop of _get_index_for_time, from 0-based position i on:
\* the first position whose time string contains the prefix, else None
RECURSIVE first_match(_, _, _)
first_match(time_list, current_day_hour, i) ==
    IF i >= Len(time_list) THEN None
    ELSE IF Contains(time_list[i + 1], current_day_hour) THEN Int_(i)
    ELSE first_match(time_list, current_day_hour, i + 1)

\* an aligner that answers None for a missing payload or timestamp
get_index_for_time_lenient(data, ref_datetime, is_hourly) ==
    IF data = None THEN Ok(None)
    ELSE IF ref_datetime = None THEN Ok(None)
    ELSE LET field_name == IF is_hourly THEN "hourly" ELSE "daily"
             slice_index == IF is_hourly THEN slice_index_hourly ELSE slice_index_daily
         IN  IF field_name \notin DOMAIN data THEN Raise("KeyError")
             ELSE IF "time" \notin DOMAIN data[field_name] THEN Raise("KeyError")
             ELSE Bind(Slice(ref_datetime, slice_index),
                       LAMBDA current_day_hour :
                           Ok(first_match(data[field_name]["time"],
                                          current_day_hour, 0)))

\* ZWeatherData._get_index_for_time
get_index_for_time(data, ref_datetime, is_hourly) ==
    IF data = None THEN Raise("Exception")
    ELSE IF ref_datetime = None THEN Raise("Exception")
    ELSE LET field_name == IF is_hourly THEN "hourly" ELSE "daily"
             slice_index == IF is_hourly THEN slice_index_hourly ELSE slice_index_daily
         IN  IF field_name \notin DOMAIN data THEN Raise("KeyError")
             ELSE IF "time" \notin DOMAIN data[field_name] THEN Raise("KeyError")
             ELSE Bind(Slice(ref_datetime, slice_index),
                       LAMBDA current_day_hour :
                           Ok(first_match(data[field_name]["time"],
                                          current_day_hour, 0)))

\* the field arrays _get_daily_weather_for_datetime reads, in the order read
DailyFields ==
    <<"time", "weathercode", "temperature_2m_max", "temperature_2m_min",
      "precipitation_sum">>

\* the field arrays _get_weather_for_datetime reads, in the order read
HourlyFields ==
    <<"time", "temperature_2m", "rain", "showers", "snowfall", "relativehumidity_2m",
      "surface_pressure", "windspeed_10m", "winddirection_10m", "cloudcover_low",
      "weathercode">>

\* data[series][f] for every f of fields: the KeyError of a missing array
HasFields(series, fields) == \A j \in 1..Len(fields) : fields[j] \in DOMAIN series

\* list[i] for every array of fields: the IndexError of a short array
InRange(series, fields, i) == \A j \in 1..Len(fields) : i < Len(series[fields[j]])

\* lines 166-186 of _get_daily_weather_for_datetime: the record at matching_index
daily_record(series, i) ==
    IF ~HasFields(series, DailyFields) THEN Raise("KeyError")
    ELSE LET dt == add_timezone_information_to_datetime(series["time"][i + 1])
         IN  IF IsRaise(dt) THEN dt
             ELSE IF ~InRange(series, DailyFields, i) THEN Raise("IndexError")
             ELSE LET cond == condition_for_code(series["weathercode"][i + 1])
                  IN  IF IsRaise(cond) THEN cond
                      ELSE Ok([datetime |-> dt.val,
                               weathercode |-> series["weathercode"][i + 1],
                               temperature |-> series["temperature_2m_max"][i + 1],
                               templow |-> series["temperature_2m_min"][i + 1],
                               precipitation |-> series["precipitation_sum"][i + 1],
                               condition |-> cond.val])

\* ZWeatherData._get_daily_weather_for_datetime
get_daily_weather_for_datetime(data, ref_datetime) ==
    Bind(get_index_for_time(data, ref_datetime, FALSE),
         LAMBDA matching_index :
             IF IsRaise(matching_index) THEN matching_index
             ELSE IF matching_index.val = None THEN Ok(None)
             ELSE daily_record(data["daily"], matching_index.val.val))

\* a record whose precipitation leaves the showers out
hourly_record_no_showers(series, i) ==
    IF ~HasFields(series, HourlyFields) THEN Raise("KeyError")
    ELSE LET dt == add_timezone_information_to_datetime(series["time"][i + 1])
         IN  IF IsRaise(dt) THEN dt
             ELSE IF ~InRange(series, HourlyFields, i) THEN Raise("IndexError")
             ELSE LET cond == condition_for_code(series["weathercode"][i + 1])
                  IN  IF IsRaise(cond) THEN cond
                      ELSE Ok([datetime |-> dt.val,
                               temperature |-> series["temperature_2m"][i + 1],
                               humidity |-> series["relativehumidity_2m"][i + 1],
                               pressure |-> series["surface_pressure"][i + 1],
                               wind_bearing |-> series["winddirection_10m"][i + 1],
                               wind_speed |-> series["windspeed_10m"][i + 1],
                               rain |-> series["rain"][i + 1],
                               snowfall |-> series["snowfall"][i + 1],
                               showers |-> series["showers"][i + 1],
                               precipitation |-> series["rain"][i + 1]
                                                 + series["snowfall"][i + 1],
                               cloudcover |-> series["cloudcover_low"][i + 1],
                               condition |-> cond.val])

\* lines 200-236 of _get_weather_for_datetime: the record at matching_index
hourly_record(series, i) ==
    IF ~HasFields(series, HourlyFields) THEN Raise("KeyError")
    ELSE LET dt == add_timezone_information_to_datetime(series["time"][i + 1])
         IN  IF IsRaise(dt) THEN dt
             ELSE IF ~InRange(series, HourlyFields, i) THEN Raise("IndexError")
             ELSE LET cond == condition_for_code(series["weathercode"][i + 1])
                  IN  IF IsRaise(cond) THEN cond
                      ELSE Ok([datetime |-> dt.val,
                               temperature |-> series["temperature_2m"][i + 1],
                               humidity |-> series["relativehumidity_2m"][i + 1],
                               pressure |-> series["surface_pressure"][i + 1],
                               wind_bearing |-> series["winddirection_10m"][i + 1],
                               wind_speed |-> series["windspeed_10m"][i + 1],
                               rain |-> series["rain"][i + 1],
                               snowfall |-> series["snowfall"][i + 1],
                               showers |-> series["showers"][i + 1],
                               precipitation |-> series["rain"][i + 1]
                                                 + series["snowfall"][i + 1]
                                                 + series["showers"][i + 1],
                               cloudcover |-> series["cloudcover_low"][i + 1],
                               condition |-> cond.val])

\* an extractor that fetches the field arrays before it looks at the index
get_weather_for_datetime_reads_first(data, ref_datetime) ==
    Bind(get_index_for_time(data, ref_datetime, TRUE),
         LAMBDA matching_index :
             IF IsRaise(matching_index) THEN matching_index
             ELSE IF ~HasFields(data["hourly"], HourlyFields) THEN Raise("KeyError")
             ELSE IF matching_index.val = None THEN Ok(None)
             ELSE hourly_record(data["hourly"], matching_index.val.val))

\* ZWeatherData._get_weather_for_datetime
get_weather_for_datetime(data, ref_datetime) ==
    Bind(get_index_for_time(data, ref_datetime, TRUE),
         LAMBDA matching_index :
             IF IsRaise(matching_index) THEN matching_index
             ELSE IF matching_index.val = None THEN Ok(None)
             ELSE hourly_record(data["hourly"], matching_index.val.val))

\* the values current_datetime takes in n iterations of
\* "current_datetime += timedelta(hours=1)", appended to acc
RECURSIVE hourly_steps(_, _, _)
hourly_steps(current_datetime, n, acc) ==
    IF n = 0 THEN acc
    ELSE hourly_steps(AddHour(current_datetime), n - 1,
                      Append(acc, AddHour(current_datetime)))

\* what a for loop leaves, given the outcome of each iteration's call: the
\* first exception raised, else the list of the values appended
loop_result(outcomes) ==
    IF \E i \in 1..Len(outcomes) : IsRaise(outcomes[i])
    THEN outcomes[CHOOSE i \in 1..Len(outcomes) :
                      /\ IsRaise(outcomes[i])
                      /\ \A j \in 1..(i - 1) : ~IsRaise(outcomes[j])]
    ELSE Ok([i \in 1..Len(outcomes) |-> outcomes[i].val])

\* a loop that appends only the records found: "if cond_dict is not None"
hourly_loop_compacting(data, current_datetime, n) ==
    Bind(hourly_steps(current_datetime, n, <<>>), LAMBDA steps :
    Bind([i \in 1..n |-> get_weather_for_datetime(data, isoformat(steps[i]))],
         LAMBDA outcomes :
             Bind(loop_result(outcomes), LAMBDA r :
                 IF IsRaise(r) THEN r
                 ELSE Ok(SelectSeq(r.val, LAMBDA e : e # None)))))

\* the for loop of _get_hourly_forecast, n iterations
hourly_loop(data, current_datetime, n) ==
    Bind(hourly_steps(current_datetime, n, <<>>), LAMBDA steps :
    Bind([i \in 1..n |-> get_weather_for_datetime(data, isoformat(steps[i]))],
         LAMBDA outcomes : loop_result(outcomes)))

\* ZWeatherData._get_hourly_forecast
get_hourly_forecast(data, current_datetime_str, next_hours_count) ==
    Bind(fromisoformat(current_datetime_str), LAMBDA current_datetime :
        IF IsRaise(current_datetime) THEN current_datetime
        ELSE hourly_loop(data, current_datetime.val, next_hours_count))

daily_forecast_days == 6

\* the values current_datetime takes in n iterations of
\* "current_datetime += timedelta(days=1)", appended to acc
RECURSIVE daily_steps(_, _, _)
daily_steps(current_datetime, n, acc) ==
    IF n = 0 THEN acc
    ELSE daily_steps(AddDay(current_datetime), n - 1,
                     Append(acc, AddDay(current_datetime)))

\* the for loop of _get_daily_forecast, n iterations
daily_loop(data, current_datetime, n) ==
    Bind(daily_steps(current_datetime, n, <<>>), LAMBDA steps :
    Bind([i \in 1..n |-> get_daily_weather_for_datetime(data, isoformat(steps[i]))],
         LAMBDA outcomes : loop_result(outcomes)))

\* ZWeatherData._get_daily_forecast
get_daily_forecast(data, current_datetime_str) ==
    Bind(fromisoformat(current_datetime_str), LAMBDA current_datetime :
        IF IsRaise(current_datetime) THEN current_datetime
        ELSE daily_loop(data, current_datetime.val, daily_forecast_days))

forecast_for_x_hours == 24

---------------------------------------------------------------------------
(* The refresh cycle: ZWeatherData.fetch_data and what it calls *)

\* the outcome of one half of fetch_data that did not reach its refresh call
NoCall == [outcome |-> "none", exc |-> "", data |-> None, ref |-> None, at |-> None]

\* ZWeatherData._refresh_weather_data_hourly(data) with the clock at now: the
\* fields as the call leaves them, and how the call ended
refresh_weather_data_hourly(data, now, cur, hf) ==
    Bind(get_current_datetime_iso(now), LAMBDA current_datetime :
    Bind(get_weather_for_datetime(data, current_datetime), LAMBDA cw :
        IF IsRaise(cw)
        THEN [cur |-> cur, hf |-> hf, cur_set |-> FALSE, hf_set |-> FALSE,
              ref |-> current_datetime, result |-> cw]
        ELSE
    Bind(get_hourly_forecast(data, current_datetime, forecast_for_x_hours), LAMBDA fc :
        IF IsRaise(fc)
        THEN [cur |-> cw.val, hf |-> hf, cur_set |-> TRUE, hf_set |-> FALSE,
              ref |-> current_datetime, result |-> fc]
        ELSE [cur |-> cw.val, hf |-> fc.val, cur_set |-> TRUE, hf_set |-> TRUE,
              ref |-> current_datetime, result |-> Ok(None)])))

\* a daily refresh that is handed the hourly half's timestamp instead of
\* reading the clock
refresh_weather_data_daily_shared(data, now, df) ==
    Bind(IF hourly_call.ref # None THEN hourly_call.ref
         ELSE get_current_datetime_iso(now), LAMBDA current_datetime :
    Bind(get_daily_forecast(data, current_datetime), LAMBDA fc :
        IF IsRaise(fc)
        THEN [df |-> df, df_set |-> FALSE, ref |-> current_datetime, result |-> fc]
        ELSE [df |-> fc.val, df_set |-> TRUE, ref |-> current_datetime,
              result |-> Ok(None)]))

\* ZWeatherData._refresh_weather_data_daily(data) with the clock at now
refresh_weather_data_daily(data, now, df) ==
    Bind(get_current_datetime_iso(now), LAMBDA current_datetime :
    Bind(get_daily_forecast(data, current_datetime), LAMBDA fc :
        IF IsRaise(fc)
        THEN [df |-> df, df_set |-> FALSE, ref |-> current_datetime, result |-> fc]
        ELSE [df |-> fc.val, df_set |-> TRUE, ref |-> current_datetime,
              result |-> Ok(None)]))

\* the classes "except Exception" catches: every exception the two halves raise
\* derives from Exception
ExceptionClasses ==
    {"Exception", "KeyError", "IndexError", "ValueError", "TypeError",
     "ClientError", "ContentTypeError"}

\* an except clause that names the transport errors only
caught_by_client_errors(exc) == exc \in {"ClientError", "ContentTypeError"}

\* "except Exception as e" of fetch_data
caught_by_except(exc) == exc \in ExceptionClasses

http_ok == 200

\* lines 297-313 of fetch_data: the hourly try block on response resp.
\* resp is Raise(e) when session.get raised, else Ok([status, json]) where
\* json is the outcome of "await response.json()"
hourly_half(resp, now, cur, hf) ==
    LET same == [cur |-> cur, hf |-> hf, cur_set |-> FALSE, hf_set |-> FALSE,
                 ref |-> None]
    IN  IF IsRaise(resp) THEN same @@ [result |-> resp, data |-> None]
        ELSE IF resp.val.status # http_ok
        THEN same @@ [result |-> Ok(Skipped), data |-> None]
        ELSE IF IsRaise(resp.val.json)
        THEN same @@ [result |-> resp.val.json, data |-> None]
        ELSE refresh_weather_data_hourly(resp.val.json.val, now, cur, hf)
             @@ [data |-> resp.val.json.val]

\* lines 316-334 of fetch_data: the daily try block on response resp
daily_half(resp, now, df) ==
    LET same == [df |-> df, df_set |-> FALSE, ref |-> None]
    IN  IF IsRaise(resp) THEN same @@ [result |-> resp, data |-> None]
        ELSE IF resp.val.status # http_ok
        THEN same @@ [result |-> Ok(Skipped), data |-> None]
        ELSE IF IsRaise(resp.val.json)
        THEN same @@ [result |-> resp.val.json, data |-> None]
        ELSE refresh_weather_data_daily(resp.val.json.val, now, df)
             @@ [data |-> resp.val.json.val]

\* how a half ended: ok (refreshed), skipped (status not 200), caught (the
\* except clause logged the exception), propagated (the exception left fetch_data)
OutcomeOf(h) ==
    IF IsRaise(h.result)
    THEN (IF caught_by_except(h.result.exc) THEN "caught" ELSE "propagated")
    ELSE IF h.result.val = Skipped THEN "skipped" ELSE "ok"

CallOf(h, now) ==
    [outcome |-> OutcomeOf(h),
     exc |-> IF IsRaise(h.result) THEN h.result.exc ELSE "",
     data |-> h.data, ref |-> h.ref, at |-> now]

---------------------------------------------------------------------------
(* The ZWeather entity (weather.py) *)

\* dict.get(key)
dict_get(d, key) == IF key \in DOMAIN d THEN Some(d[key]) ELSE None

CurrentProperties ==
    {"condition", "temperature", "pressure", "humidity", "wind_speed", "wind_bearing"}

\* ZWeather.condition .. ZWeather.wind_bearing:
\* self.coordinator.data.current_weather_data.get(key)
entity_get(data_set, cur, key) ==
    IF ~data_set \/ cur = None THEN Raise("AttributeError")
    ELSE Ok(dict_get(cur, key))

\* ZWeather.forecast
entity_forecast(data_set, hf, df, is_hourly) ==
    IF ~data_set THEN Raise("AttributeError")
    ELSE Ok(IF is_hourly THEN hf ELSE df)

---------------------------------------------------------------------------
(* The environment: the clock and the two endpoints' responses *)

MaxCycles == 2

MaxLatency == 1

PayloadHours == 6

PayloadDays == 7

update_interval_minutes == 30

Dt(y, mo, d, h, mi) ==
    [year |-> y, month |-> mo, day |-> d, hour |-> h, minute |-> mi, second |-> 0,
     tz |-> <<>>]

RECURSIVE PlusMinutes(_, _)
PlusMinutes(dt, m) ==
    IF m = 0 THEN dt
    ELSE IF dt.minute < 59 THEN PlusMinutes([dt EXCEPT !.minute = dt.minute + 1], m - 1)
    ELSE PlusMinutes(AddHour([dt EXCEPT !.minute = 0]), m - 1)

RECURSIVE PlusHours(_, _)
PlusHours(dt, k) == IF k = 0 THEN dt ELSE PlusHours(AddHour(dt), k - 1)

RECURSIVE PlusDays(_, _)
PlusDays(dt, k) == IF k = 0 THEN dt ELSE PlusDays(AddDay(dt), k - 1)

\* the clock when the component starts: the second refresh is due one minute
\* before the hour
InitClock == Dt(2023, 4, 21, 2, 29)

Midnight(dt) == [dt EXCEPT !.hour = 0, !.minute = 0, !.second = 0]

\* the endpoint's time strings: "YYYY-MM-DDTHH:MM" and "YYYY-MM-DD"
HourStr(dt) == Slice(isoformat(dt), 16)

DayStr(dt) == Slice(isoformat(dt), 10)

MappedCodes == <<0, 1, 2, 3, 65, 56, 95>>

\* a weather code the table does not hold
UnmappedCode == CHOOSE c \in 0..99 : c \notin WmoCodes

\* an hourly payload of n hours from start, whose weather code at position bad
\* (if any) is not in the table
HourlyPayload(start, n, bad) ==
    [hourly |->
        [time |-> [i \in 1..n |-> HourStr(PlusHours(start, i - 1))],
         temperature_2m |-> [i \in 1..n |-> 40 + i],
         relativehumidity_2m |-> [i \in 1..n |-> 60 + i],
         rain |-> [i \in 1..n |-> i % 3],
         showers |-> [i \in 1..n |-> i % 2],
         snowfall |-> [i \in 1..n |-> (i + 1) % 4],
         cloudcover_low |-> [i \in 1..n |-> (7 * i) % 100],
         windspeed_10m |-> [i \in 1..n |-> 10 + i],
         winddirection_10m |-> [i \in 1..n |-> (15 * i) % 360],
         surface_pressure |-> [i \in 1..n |-> 1000 + i],
         weathercode |-> [i \in 1..n |->
                             IF i = bad THEN UnmappedCode
                             ELSE MappedCodes[(i % Len(MappedCodes)) + 1]]]]

\* a payload without one of its arrays
Without(payload, series, field) ==
    [payload EXCEPT ![series] =
        [f \in DOMAIN payload[series] \ {field} |-> payload[series][f]]]

DailyPayload(start, n, bad) ==
    [daily |->
        [time |-> [i \in 1..n |-> DayStr(PlusDays(start, i - 1))],
         weathercode |-> [i \in 1..n |->
                             IF i = bad THEN UnmappedCode
                             ELSE MappedCodes[(i % Len(MappedCodes)) + 1]],
         temperature_2m_max |-> [i \in 1..n |-> 150 + i],
         temperature_2m_min |-> [i \in 1..n |-> 50 + i],
         precipitation_sum |-> [i \in 1..n |-> i % 5]]]

Response(status, json) == Ok([status |-> status, json |-> json])

\* what the hourly endpoint may answer when the clock is at now: a series from
\* today's midnight on
HourlyResponses(now) ==
    LET start == Midnight(now)
        good == HourlyPayload(start, PayloadHours, 0)
    IN  {Response(200, Ok(good)),
         \* no entry for the current hour: the series starts tomorrow
         Response(200, Ok(HourlyPayload(AddDay(start), PayloadHours, 0))),
         \* an unmapped code two hours after the current hour
         Response(200, Ok(HourlyPayload(start, PayloadHours, now.hour + 3))),
         \* a payload without its weathercode array
         Response(200, Ok(Without(good, "hourly", "weathercode"))),
         \* the JSON document null
         Response(200, Ok(None)),
         \* a body that is not JSON
         Response(200, Raise("ContentTypeError")),
         Response(500, Ok(None)),
         Raise("ClientError")}

\* what the daily endpoint may answer when the clock is at now
DailyResponses(now) ==
    LET start == Midnight(now)
        good == DailyPayload(start, PayloadDays, 0)
    IN  {Response(200, Ok(good)),
         \* an unmapped code the day after tomorrow
         Response(200, Ok(DailyPayload(start, PayloadDays, 3))),
         Response(200, Ok(Without(good, "daily", "precipitation_sum"))),
         Response(200, Ok(None)),
         Response(200, Raise("ContentTypeError")),
         Response(500, Ok(None)),
         Raise("ClientError")}

NoRead == [prop |-> "", result |-> None]

NoDirectCall == [fn |-> ""]

Published == [cur |-> current_weather_data, hf |-> hourly_forecast,
              df |-> daily_forecast]

---------------------------------------------------------------------------
(* The state machine *)

\* ZWeatherData.__init__ and ZWeatherDataCoordinator.__init__
Init ==
    /\ current_weather_data = EmptyDict
    /\ hourly_forecast = <<>>
    /\ daily_forecast = <<>>
    /\ clock = InitClock
    /\ pc = "idle"
    /\ cycles = 0
    /\ ticks = 0
    /\ coordinator_data = FALSE
    /\ returned = "none"
    /\ hourly_call = NoCall
    /\ daily_call = NoCall
    /\ cur_cycle = 0
    /\ hf_cycle = 0
    /\ prev = Published
    /\ read = NoRead
    /\ call = NoDirectCall

\* async_config_entry_first_refresh at startup, then the coordinator's timer every
\* update_interval: _async_update_data awaits fetch_data, which sends the hourly
\* request
Trigger ==
    /\ pc = "idle"
    /\ returned # "raised"
    /\ cycles < MaxCycles
    /\ pc' = "await_hourly"
    /\ cycles' = cycles + 1
    /\ ticks' = 0
    /\ clock' = IF cycles = 0 THEN clock ELSE PlusMinutes(clock, update_interval_minutes)
    /\ hourly_call' = NoCall
    /\ daily_call' = NoCall
    /\ prev' = Published
    /\ read' = NoRead
    /\ UNCHANGED <<current_weather_data, hourly_forecast, daily_forecast,
                   coordinator_data, returned, cur_cycle, hf_cycle, call>>

\* time passes while a request is in flight
Latency ==
    /\ pc \in {"await_hourly", "await_daily"}
    /\ ticks < MaxLatency
    /\ ticks' = ticks + 1
    /\ clock' = PlusMinutes(clock, 1)
    /\ UNCHANGED <<current_weather_data, hourly_forecast, daily_forecast, pc, cycles,
                   coordinator_data, returned, hourly_call, daily_call, cur_cycle,
                   hf_cycle, prev, read, call>>

\* the hourly response arrives: lines 297-315 of fetch_data
HourlyResponse ==
    /\ pc = "await_hourly"
    /\ \E resp \in HourlyResponses(clock) :
        \E h \in {hourly_half(resp, clock, current_weather_data, hourly_forecast)} :
              /\ current_weather_data' = h.cur
              /\ hourly_forecast' = h.hf
              /\ cur_cycle' = IF h.cur_set THEN cycles ELSE cur_cycle
              /\ hf_cycle' = IF h.hf_set THEN cycles ELSE hf_cycle
              /\ hourly_call' = CallOf(h, clock)
              /\ IF OutcomeOf(h) = "propagated"
                 THEN pc' = "idle" /\ returned' = "raised"
                 ELSE pc' = "await_daily" /\ returned' = returned
    /\ UNCHANGED <<daily_forecast, clock, cycles, ticks, coordinator_data, daily_call,
                   prev, read, call>>

\* the daily response arrives: lines 316-336 of fetch_data, and the coordinator
\* stores what fetch_data returned
DailyResponse ==
    /\ pc = "await_daily"
    /\ \E resp \in DailyResponses(clock) :
        \E h \in {daily_half(resp, clock, daily_forecast)} :
              /\ daily_forecast' = h.df
              /\ daily_call' = CallOf(h, clock)
              /\ IF OutcomeOf(h) = "propagated"
                 THEN returned' = "raised" /\ coordinator_data' = coordinator_data
                 ELSE returned' = "self" /\ coordinator_data' = TRUE
    /\ pc' = "idle"
    /\ UNCHANGED <<current_weather_data, hourly_forecast, clock, cycles, ticks,
                   hourly_call, cur_cycle, hf_cycle, prev, read, call>>

\* the coordinator has published a refresh and the platform reads a
\* current-conditions property of a ZWeather entity
ReadCurrent ==
    /\ pc = "idle"
    /\ coordinator_data
    /\ \E key \in CurrentProperties :
          read' = [prop |-> key,
                   result |-> entity_get(coordinator_data, current_weather_data, key)]
    /\ UNCHANGED <<current_weather_data, hourly_forecast, daily_forecast, clock, pc,
                   cycles, ticks, coordinator_data, returned, hourly_call, daily_call,
                   cur_cycle, hf_cycle, prev, call>>

\* the platform reads the forecast property of the hourly or the daily entity
ReadForecast ==
    /\ pc = "idle"
    /\ coordinator_data
    /\ \E is_hourly \in BOOLEAN :
          read' = [prop |-> IF is_hourly THEN "forecast_hourly" ELSE "forecast_daily",
                   result |-> entity_forecast(coordinator_data, hourly_forecast,
                                              daily_forecast, is_hourly)]
    /\ UNCHANGED <<current_weather_data, hourly_forecast, daily_forecast, clock, pc,
                   cycles, ticks, coordinator_data, returned, hourly_call, daily_call,
                   cur_cycle, hf_cycle, prev, call>>

Next ==
    \/ Trigger
    \/ Latency
    \/ HourlyResponse
    \/ DailyResponse
    \/ ReadCurrent
    \/ ReadForecast

Spec == Init /\ [][Next]_vars

---------------------------------------------------------------------------
(* Direct calls of ZWeatherData's methods on a fresh object, as the unit     *)
(* tests make them: one call per object, its arguments drawn from small sets *)

MaxRows == 2

RECURSIVE SeqsUpTo(_, _)
\* the sequences over S of length at most n
SeqsUpTo(S, n) ==
    IF n = 0 THEN {<<>>}
    ELSE SeqsUpTo(S, n - 1)
         \cup {Append(q, x) : q \in {r \in SeqsUpTo(S, n - 1) : Len(r) = n - 1}, x \in S}

\* time strings of an hourly series: two consecutive hours, the first hour of a
\* month, and a string that holds an hour behind a stray character
TestHourStrings ==
    {HourStr(Dt(2023, 4, 21, 2, 0)), HourStr(Dt(2023, 4, 21, 3, 0)),
     HourStr(Dt(2023, 5, 1, 0, 0)), <<"x">> \o HourStr(Dt(2023, 4, 21, 2, 0))}

\* time strings of a daily series
TestDayStrings ==
    {DayStr(Dt(2023, 4, 21, 0, 0)), DayStr(Dt(2023, 4, 22, 0, 0)),
     DayStr(Dt(2023, 5, 1, 0, 0)), <<"x">> \o DayStr(Dt(2023, 4, 21, 0, 0))}

\* the weather codes of the test series, the last one not in the table
TestCodes == <<0, 1, 65, 56, UnmappedCode>>

CodeAt(i, shift) == TestCodes[((i + shift) % Len(TestCodes)) + 1]

TestHourly(times, shift) ==
    LET n == Len(times)
    IN  [hourly |->
            [time |-> times,
             temperature_2m |-> [i \in 1..n |-> 70 + i],
             relativehumidity_2m |-> [i \in 1..n |-> 80 + i],
             rain |-> [i \in 1..n |-> i + shift],
             showers |-> [i \in 1..n |-> 2 * i],
             snowfall |-> [i \in 1..n |-> shift],
             cloudcover_low |-> [i \in 1..n |-> 10 * i],
             windspeed_10m |-> [i \in 1..n |-> 5 + i],
             winddirection_10m |-> [i \in 1..n |-> 340 + i],
             surface_pressure |-> [i \in 1..n |-> 1000 + i],
             weathercode |-> [i \in 1..n |-> CodeAt(i, shift)]]]

TestDaily(times, shift) ==
    LET n == Len(times)
    IN  [daily |->
            [time |-> times,
             weathercode |-> [i \in 1..n |-> CodeAt(i, shift)],
             temperature_2m_max |-> [i \in 1..n |-> 150 + i],
             temperature_2m_min |-> [i \in 1..n |-> 50 + i],
             precipitation_sum |-> [i \in 1..n |-> i + shift]]]

Shifts == 0..(Len(TestCodes) - 1)

\* hourly payloads: whole ones, and ones without the weathercode array
TestHourlyData ==
    LET whole == {TestHourly(t, k) : t \in SeqsUpTo(TestHourStrings, MaxRows), k \in Shifts}
    IN  whole \cup {Without(d, "hourly", "weathercode") : d \in whole}

\* daily payloads: whole ones, and ones without the precipitation_sum array
TestDailyData ==
    LET whole == {TestDaily(t, k) : t \in SeqsUpTo(TestDayStrings, MaxRows), k \in Shifts}
    IN  whole \cup {Without(d, "daily", "precipitation_sum") : d \in whole}

\* the mocked current times: the one of the repository's tests, an hour before
\* it, and the last hour of a month
TestNows == {Dt(2023, 4, 21, 2, 24), Dt(2023, 4, 21, 1, 24), Dt(2023, 4, 30, 23, 29)}

\* reference timestamps: the tests' naive one, and what the clock yields
TestRefs ==
    {isoformat(Dt(2023, 4, 21, 2, 24))} \cup {get_current_datetime_iso(t) : t \in TestNows}

\* the values of next_hours_count
ForecastCounts == {0, 1, 2, forecast_for_x_hours}

Fresh == call = NoDirectCall

CallFrame ==
    UNCHANGED <<pc, cycles, ticks, coordinator_data, returned, hourly_call, daily_call,
                cur_cycle, hf_cycle, prev, read>>

NoPublish == UNCHANGED <<current_weather_data, hourly_forecast, daily_forecast, clock>>

IndexCall(data, ref, is_hourly) ==
    [fn |-> "_get_index_for_time", data |-> data, ref |-> ref, is_hourly |-> is_hourly,
     result |-> get_index_for_time(data, ref, is_hourly)]

\* zweather_data._get_index_for_time(data, ref_datetime, is_hourly), the payload
\* or the reference timestamp possibly None
CallGetIndexForTime ==
    /\ Fresh
    /\ \E data \in TestHourlyData \cup TestDailyData \cup {None}, is_hourly \in BOOLEAN :
          \/ \E ref \in TestRefs : call' = IndexCall(data, ref, is_hourly)
          \/ call' = IndexCall(data, None, is_hourly)
    /\ NoPublish /\ CallFrame

\* zweather_data._get_weather_for_datetime(data, ref_datetime)
CallGetWeatherForDatetime ==
    /\ Fresh
    /\ \E data \in TestHourlyData, ref \in TestRefs :
          call' = [fn |-> "_get_weather_for_datetime", data |-> data, ref |-> ref,
                   is_hourly |-> TRUE,
                   result |-> get_weather_for_datetime(data, ref)]
    /\ NoPublish /\ CallFrame

\* zweather_data._get_daily_weather_for_datetime(data, ref_datetime)
CallGetDailyWeatherForDatetime ==
    /\ Fresh
    /\ \E data \in TestDailyData, ref \in TestRefs :
          call' = [fn |-> "_get_daily_weather_for_datetime", data |-> data,
                   ref |-> ref, is_hourly |-> FALSE,
                   result |-> get_daily_weather_for_datetime(data, ref)]
    /\ NoPublish /\ CallFrame

\* zweather_data._get_hourly_forecast(data, current_datetime_str, next_hours_count)
CallGetHourlyForecast ==
    /\ Fresh
    /\ \E data \in TestHourlyData, ref \in TestRefs, n \in ForecastCounts :
          call' = [fn |-> "_get_hourly_forecast", data |-> data, ref |-> ref,
                   is_hourly |-> TRUE, count |-> n,
                   result |-> get_hourly_forecast(data, ref, n)]
    /\ NoPublish /\ CallFrame

\* zweather_data._get_daily_forecast(data, current_datetime_str)
CallGetDailyForecast ==
    /\ Fresh
    /\ \E data \in TestDailyData, ref \in TestRefs :
          call' = [fn |-> "_get_daily_forecast", data |-> data, ref |-> ref,
                   is_hourly |-> FALSE, count |-> daily_forecast_days,
                   result |-> get_daily_forecast(data, ref)]
    /\ NoPublish /\ CallFrame

\* zweather_data._refresh_weather_data_hourly(data), the clock mocked to now
CallRefreshHourly ==
    /\ Fresh
    /\ \E data \in TestHourlyData, now \in TestNows :
        \E h \in {refresh_weather_data_hourly(data, now, current_weather_data,
                                              hourly_forecast)} :
          /\ clock' = now
          /\ current_weather_data' = h.cur
          /\ hourly_forecast' = h.hf
          /\ call' = [fn |-> "_refresh_weather_data_hourly", data |-> data,
                      ref |-> h.ref, is_hourly |-> TRUE, cur_set |-> h.cur_set,
                      result |-> h.result]
    /\ UNCHANGED daily_forecast
    /\ CallFrame

\* zweather_data._refresh_weather_data_daily(data), the clock mocked to now
CallRefreshDaily ==
    /\ Fresh
    /\ \E data \in TestDailyData, now \in TestNows :
        \E h \in {refresh_weather_data_daily(data, now, daily_forecast)} :
          /\ clock' = now
          /\ daily_forecast' = h.df
          /\ call' = [fn |-> "_refresh_weather_data_daily", data |-> data,
                      ref |-> h.ref, is_hourly |-> FALSE, result |-> h.result]
    /\ UNCHANGED <<current_weather_data, hourly_forecast>>
    /\ CallFrame

NextCalls ==
    \/ CallGetIndexForTime
    \/ CallGetWeatherForDatetime
    \/ CallGetDailyWeatherForDatetime
    \/ CallGetHourlyForecast
    \/ CallGetDailyForecast
    \/ CallRefreshHourly
    \/ CallRefreshDaily

SpecCalls == Init /\ [][NextCalls]_vars

---------------------------------------------------------------------------
(* Properties of the refresh cycle, checked under Spec *)

\* a half that ended without refreshing: a status other than 200, or an exception
\* the except clause caught
Failed(c) == c.outcome \in {"skipped", "caught"}

Refreshed(c) == c.outcome = "ok"

\* what the hourly half builds from its payload and reference time
HourlyBuilt(c) ==
    [cur |-> get_weather_for_datetime(c.data, c.ref),
     hf |-> get_hourly_forecast(c.data, c.ref, forecast_for_x_hours)]

\* C1: partial-failure isolation. When a cycle has ended with the hourly half
\* refreshed and the daily half failed, current_weather_data and hourly_forecast
\* are the ones built from the new hourly payload and daily_forecast is what it
\* was when the cycle started; when the hourly half failed and the daily half
\* refreshed, daily_forecast is the one built from the new daily payload and
\* current_weather_data and hourly_forecast are what they were when the cycle
\* started; a failed hourly half is always followed by the daily request.
C1_PartialFailureIsolation ==
    /\ (pc = "idle" /\ Refreshed(hourly_call) /\ Failed(daily_call)) =>
          /\ current_weather_data = HourlyBuilt(hourly_call).cur.val
          /\ hourly_forecast = HourlyBuilt(hourly_call).hf.val
          /\ daily_forecast = prev.df
    /\ (pc = "idle" /\ Failed(hourly_call) /\ Refreshed(daily_call)) =>
          /\ daily_forecast = get_daily_forecast(daily_call.data, daily_call.ref).val
          /\ current_weather_data = prev.cur
          /\ hourly_forecast = prev.hf
    /\ Failed(hourly_call) => (pc = "await_daily" \/ daily_call.outcome # "none")

\* C2: a refresh cycle never raises past its boundary. No exception leaves either
\* try block, and every cycle that was started and has ended, the first one and
\* the timer's, returned the ZWeatherData object to the coordinator.
C2_CycleNeverRaises ==
    /\ returned # "raised"
    /\ hourly_call.outcome # "propagated"
    /\ daily_call.outcome # "propagated"
    /\ (pc = "idle" /\ cycles > 0) => (returned = "self" /\ coordinator_data)

\* a timer-triggered cycle has ended in which the hourly half hit an unmapped
\* weather code or a missing array and the daily half was handed a null payload
C2_Witness ==
    /\ pc = "idle" /\ cycles = 2 /\ returned = "self"
    /\ hourly_call.outcome = "caught" /\ hourly_call.exc = "KeyError"
    /\ daily_call.outcome = "caught" /\ daily_call.exc = "Exception"

\* C6: no exception surfaces to the consumer. Every read of a current-conditions
\* property or of the forecast property of a ZWeather entity returns.
C6_ReadsNeverRaise == read.prop # "" => IsOk(read.result)

\* C9 as claimed: within one cycle the hourly build and the daily build use the
\* same reference timestamp.
C9_OneNowPerCycle ==
    (hourly_call.ref # None /\ daily_call.ref # None) =>
        hourly_call.ref = daily_call.ref

\* C9, amended: each half of a cycle reads the clock once, when it processes its
\* own payload. The current-conditions record and the hourly forecast are built
\* from the clock's value when the hourly payload is processed; the daily
\* forecast is built from the clock's value when the daily payload is processed.
C9_OneNowPerHalf ==
    /\ hourly_call.ref # None =>
          hourly_call.ref = get_current_datetime_iso(hourly_call.at)
    /\ Refreshed(hourly_call) =>
          /\ current_weather_data = HourlyBuilt(hourly_call).cur.val
          /\ hourly_forecast = HourlyBuilt(hourly_call).hf.val
    /\ daily_call.ref # None =>
          daily_call.ref = get_current_datetime_iso(daily_call.at)
    /\ Refreshed(daily_call) =>
          daily_forecast = get_daily_forecast(daily_call.data, daily_call.ref).val

\* both halves of a cycle refreshed and the clock advanced between them
C9_Witness ==
    /\ pc = "idle" /\ Refreshed(hourly_call) /\ Refreshed(daily_call)
    /\ hourly_call.at # daily_call.at
    /\ hourly_call.ref # daily_call.ref

\* C10: the hourly half of the published state is updated atomically. Whenever
\* the consumer can observe the state, current_weather_data and hourly_forecast
\* come from the same cycle's hourly payload and reference timestamp (or both are
\* still the initial values).
C10_HourlyHalfAtomic == (pc = "idle" /\ coordinator_data) => cur_cycle = hf_cycle

---------------------------------------------------------------------------
(* Properties of the methods, checked under SpecCalls *)

SeriesOf(c) == c.data[IF c.is_hourly THEN "hourly" ELSE "daily"]

\* the first 13 characters of a reference timestamp for the hourly series, the
\* first 10 for the daily one
PrefixOf(ref, is_hourly) == SubSeq(ref, 1, IF is_hourly THEN 13 ELSE 10)

\* the 0-based positions of the time entries that contain the prefix
Matches(time_list, prefix) ==
    {i \in 0..(Len(time_list) - 1) : Contains(time_list[i + 1], prefix)}

Lowest(M) == CHOOSE i \in M : \A j \in M : i <= j

Aligned(time_list, prefix) ==
    IF Matches(time_list, prefix) = {} THEN None
    ELSE Int_(Lowest(Matches(time_list, prefix)))

\* a call of one of the two record extractors
ExtractorCall ==
    call.fn \in {"_get_weather_for_datetime", "_get_daily_weather_for_datetime"}

\* the positions of call's series that match call's reference timestamp
CallMatches == Matches(SeriesOf(call).time, PrefixOf(call.ref, call.is_hourly))

C4_LowestMatchingIndex ==
    /\ (/\ call.fn = "_get_index_for_time"
        /\ call.data # None /\ call.ref # None
        /\ (IF call.is_hourly THEN "hourly" ELSE "daily") \in DOMAIN call.data) =>
          /\ call.result =
                Ok(Aligned(SeriesOf(call).time, PrefixOf(call.ref, call.is_hourly)))
          /\ SeriesOf(call).time = <<>> => call.result = Ok(None)
    /\ (call.fn = "_refresh_weather_data_hourly" /\ call.cur_set) =>
          current_weather_data =
              IF CallMatches = {} THEN None
              ELSE hourly_record(SeriesOf(call), Lowest(CallMatches)).val

\* the current time 02:24 against a series that holds the 02:00 entry twice:
\* the first of the two positions is returned
C4_Witness ==
    /\ call.fn = "_get_index_for_time" /\ call.is_hourly
    /\ call.data # None /\ "hourly" \in DOMAIN call.data
    /\ call.ref # None
    /\ call.ref = isoformat(Dt(2023, 4, 21, 2, 24))
    /\ SeriesOf(call).time =
           <<HourStr(Dt(2023, 4, 21, 2, 0)), HourStr(Dt(2023, 4, 21, 2, 0))>>
    /\ call.result = Ok(Int_(0))

\* C5: when no time entry of the series contains the reference timestamp's
\* prefix, both extractors return null, whatever field arrays the series lacks.
C5_NoMatchYieldsNull ==
    (ExtractorCall /\ CallMatches = {}) => call.result = Ok(None)

\* an hourly series of two entries without its weathercode array, no entry
\* matching: the extractor returned null
C5_Witness ==
    /\ call.fn = "_get_weather_for_datetime"
    /\ "weathercode" \notin DOMAIN SeriesOf(call)
    /\ Len(SeriesOf(call).time) = 2
    /\ CallMatches = {}
    /\ call.result = Ok(None)

ConditionLabels ==
    {"sunny", "partlycloudy", "cloudy", "fog", "rainy", "snowy-rainy", "pouring",
     "snow", "lightning-rainy"}

\* C7: every code of the table maps to a label of the closed set (0 and 1 to
\* sunny, 65 to pouring, 56 to snowy-rainy); a record an extractor returns has
\* the table's label for the weather code at the aligned position; for a code
\* the table does not hold the extractor raises and returns no record.
C7_ConditionFromTable ==
    /\ \A c \in WmoCodes : wmo_code_to_condition_map[c] \in ConditionLabels
    /\ wmo_code_to_condition_map[0] = "sunny"
    /\ wmo_code_to_condition_map[1] = "sunny"
    /\ wmo_code_to_condition_map[65] = "pouring"
    /\ wmo_code_to_condition_map[56] = "snowy-rainy"
    /\ (ExtractorCall /\ IsOk(call.result) /\ call.result.val # None) =>
          LET code == SeriesOf(call).weathercode[Lowest(CallMatches) + 1]
          IN  /\ code \in WmoCodes
              /\ call.result.val.condition = wmo_code_to_condition_map[code]
              /\ call.result.val.condition \in ConditionLabels
    /\ (/\ ExtractorCall /\ CallMatches # {}
        /\ "weathercode" \in DOMAIN SeriesOf(call)
        /\ SeriesOf(call).weathercode[Lowest(CallMatches) + 1] \notin WmoCodes) =>
          IsRaise(call.result)

\* an extractor met a code the table does not hold and raised KeyError
C7_Witness ==
    /\ ExtractorCall /\ CallMatches # {}
    /\ HasFields(SeriesOf(call), IF call.is_hourly THEN HourlyFields ELSE DailyFields)
    /\ SeriesOf(call).weathercode[Lowest(CallMatches) + 1] = UnmappedCode
    /\ call.result = Raise("KeyError")

\* C8: a record _get_weather_for_datetime returns has precipitation equal to
\* its rain + snowfall + showers, each of the three being the value of the
\* payload's array at the aligned position.
C8_PrecipitationIsSum ==
    (/\ call.fn = "_get_weather_for_datetime"
     /\ IsOk(call.result) /\ call.result.val # None) =>
        LET r == call.result.val
            i == Lowest(CallMatches)
        IN  /\ r.precipitation = r.rain + r.snowfall + r.showers
            /\ r.rain = SeriesOf(call).rain[i + 1]
            /\ r.snowfall = SeriesOf(call).snowfall[i + 1]
            /\ r.showers = SeriesOf(call).showers[i + 1]

\* a record with rain, snowfall and showers all positive and different, aligned
\* to the second entry of its series
C8_Witness ==
    /\ call.fn = "_get_weather_for_datetime"
    /\ IsOk(call.result) /\ call.result.val # None
    /\ Lowest(CallMatches) = 1
    /\ call.result.val.snowfall > 0
    /\ call.result.val.rain > call.result.val.showers
    /\ call.result.val.showers > call.result.val.snowfall

\* C11: _get_index_for_time raises Exception whenever the payload is None or the
\* reference timestamp is None, for the hourly and the daily series alike, and
\* does so before it reads the series: a payload that lacks the series asked
\* for still gives Exception and not KeyError, and never a None result.
C11_NullInputRaises ==
    (/\ call.fn = "_get_index_for_time"
     /\ (call.data = None \/ call.ref = None)) =>
        call.result = Raise("Exception")

\* the daily index asked of an hourly payload with no reference timestamp: the
\* call raised Exception without reaching data["daily"]
C11_Witness ==
    /\ call.fn = "_get_index_for_time" /\ ~call.is_hourly
    /\ call.ref = None
    /\ call.data # None /\ "daily" \notin DOMAIN call.data
    /\ call.result = Raise("Exception")

\* the hourly index asked of no payload at all, with a reference timestamp
C11_WitnessNoData ==
    /\ call.fn = "_get_index_for_time" /\ call.is_hourly
    /\ call.data = None /\ call.ref # None
    /\ call.result = Raise("Exception")

====
